---- MODULE Spec2Model ----
(***************************************************************************)
(* eKeys: keyframe evaluation for After Effects expressions.               *)
(*                                                                         *)
(* Two entry points are modelled from the source:                          *)
(*   - the one-shot form  eKeys.animate(inputKeyframes, options)           *)
(*     (src/eKeys.jsx), and                                                *)
(*   - the construction form  AnimGroup(inputKeyframes).anim(time)         *)
(*     (src/unnamed/part_000).                                             *)
(*                                                                         *)
(* JavaScript numbers are modelled as exact rationals <<n, d>> (d > 0,     *)
(* lowest terms); <<0, 0>> is NaN and <<1, 0>>, <<-1, 0>> are the          *)
(* infinities.  Rounding of IEEE doubles is not modelled.                  *)
(***************************************************************************)
EXTENDS Integers, Sequences, FiniteSets, TLC

VARIABLES
    inputKeyframes,  \* the keyframe list the host passes to either entry point
    group,           \* AnimGroup context: "none", "ready" or "failed"
    keys,            \* the closure variable `keys` of a constructed AnimGroup
    call             \* the last call made and what it did

vars == <<inputKeyframes, group, keys, call>>

-----------------------------------------------------------------------------
(* Bounds of the model *)

\* longest keyframe list passed to an entry point
MaxKeys == 3

-----------------------------------------------------------------------------
(* Rational arithmetic standing for JavaScript number arithmetic *)

Abs(n) == IF n < 0 THEN -n ELSE n

Sign(n) == IF n < 0 THEN -1 ELSE IF n > 0 THEN 1 ELSE 0

RECURSIVE GCD(_, _)
GCD(a, b) == IF b = 0 THEN a ELSE GCD(b, a % b)

NaN == <<0, 0>>

Rat(n, d) ==
    IF d = 0 THEN <<Sign(n), 0>>
    ELSE LET g == GCD(Abs(n), Abs(d))
             s == IF d < 0 THEN -1 ELSE 1
         IN  <<(s * n) \div g, (s * d) \div g>>

RInt(n) == <<n, 1>>

IsNaN(a) == a = NaN

IsInf(a) == a[2] = 0 /\ a[1] # 0

\* a + b
RAdd(a, b) ==
    IF IsNaN(a) \/ IsNaN(b) THEN NaN
    ELSE IF IsInf(a) /\ IsInf(b) THEN (IF a = b THEN a ELSE NaN)
    ELSE IF IsInf(a) THEN a
    ELSE IF IsInf(b) THEN b
    ELSE Rat(a[1] * b[2] + b[1] * a[2], a[2] * b[2])

\* -a
RNeg(a) == <<-a[1], a[2]>>

\* a - b
RSub(a, b) == RAdd(a, RNeg(b))

\* a * b
RMul(a, b) ==
    IF IsNaN(a) \/ IsNaN(b) THEN NaN
    ELSE IF IsInf(a) \/ IsInf(b) THEN <<Sign(a[1]) * Sign(b[1]), 0>>
    ELSE Rat(a[1] * b[1], a[2] * b[2])

\* a / b
RDiv(a, b) ==
    IF IsNaN(a) \/ IsNaN(b) THEN NaN
    ELSE IF IsInf(a) /\ IsInf(b) THEN NaN
    ELSE IF IsInf(a) THEN <<Sign(a[1]) * (IF b[1] < 0 THEN -1 ELSE 1), 0>>
    ELSE IF IsInf(b) THEN RInt(0)
    ELSE IF b[1] = 0 THEN <<Sign(a[1]), 0>>
    ELSE Rat(a[1] * b[2], a[2] * b[1])

\* a < b  (false when either is NaN)
RLt(a, b) ==
    IF IsNaN(a) \/ IsNaN(b) THEN FALSE
    ELSE IF IsInf(a) \/ IsInf(b)
         THEN (IF IsInf(a) /\ IsInf(b) THEN a[1] < b[1]
               ELSE IF IsInf(a) THEN a[1] < 0
               ELSE b[1] > 0)
    ELSE a[1] * b[2] < b[1] * a[2]

\* a === b on numbers (false when either is NaN)
REq(a, b) == ~IsNaN(a) /\ ~IsNaN(b) /\ a = b

\* a <= b
RLe(a, b) == RLt(a, b) \/ REq(a, b)

\* a >= b
RGe(a, b) == RLe(b, a)

\* Math.max(a, b)
RMax(a, b) == IF IsNaN(a) \/ IsNaN(b) THEN NaN ELSE IF RLt(a, b) THEN b ELSE a

\* Math.min(a, b)
RMin(a, b) == IF IsNaN(a) \/ IsNaN(b) THEN NaN ELSE IF RLt(b, a) THEN b ELSE a

-----------------------------------------------------------------------------
(* JavaScript values *)

Undefined == [type |-> "undefined"]

Null == [type |-> "null"]

Num(r) == [type |-> "number", num |-> r]

Str(s) == [type |-> "string", str |-> s]

\* an array object: `ref` is its identity, `elems` its elements
Arr(ref, elems) == [type |-> "array", ref |-> ref, elems |-> elems]

\* obj.f : undefined when the object has no such property
Prop(obj, f) == IF f \in DOMAIN obj THEN obj[f] ELSE Undefined

\* a destructuring default:  { f = d } = obj
OrDefault(v, d) == IF v = Undefined THEN d ELSE v

\* a === b
StrictEq(a, b) ==
    IF a.type # b.type THEN FALSE
    ELSE IF a.type = "number" THEN REq(a.num, b.num)
    ELSE IF a.type = "array" THEN a.ref = b.ref
    ELSE a = b

Return(v) == [kind |-> "return", value |-> v]

Throw(name, message) == [kind |-> "throw", error |-> name, message |-> message]

\* a function value of the `interpolators` table, by its property name
Fn(name) == [type |-> "function", name |-> name]

\* a plain object: `ref` is its identity
Obj(ref) == [type |-> "object", ref |-> ref]

\* the string made of ToString(a) followed by ToString(b)
Concat(a, b) == [type |-> "string", concat |-> <<a, b>>]

\* ToNumber, for the operands the model meets
ToNumber(v) ==
    IF v.type = "number" THEN v.num
    ELSE IF v.type = "null" THEN RInt(0)
    ELSE NaN

\* a - b, a * b on values
JsSub(a, b) == Num(RSub(ToNumber(a), ToNumber(b)))

JsMul(a, b) == Num(RMul(ToNumber(a), ToNumber(b)))

\* a + b: concatenation when either operand is a string
JsAdd(a, b) ==
    IF a.type = "string" \/ b.type = "string" THEN Concat(a, b)
    ELSE Num(RAdd(ToNumber(a), ToNumber(b)))

\* array[index] with a 0-based index: undefined past the end
At(elems, index) ==
    IF index + 1 \in 1..Len(elems) THEN elems[index + 1] ELSE Undefined

-----------------------------------------------------------------------------
(* src/eKeys.jsx: type checking helpers *)

\* More reliable version of standard js typeof
getType(value) == value.type

typeErrorMessage(variableName, expectedType, receivedType) ==
    Throw("TypeError", [tmpl |-> "must be of type",
                        variableName |-> variableName,
                        expectedType |-> expectedType,
                        receivedType |-> receivedType])

requiredArgumentError(variableName, functionName) ==
    Throw("Error", [tmpl |-> "is required in",
                    variableName |-> variableName,
                    functionName |-> functionName])

\* Return(TRUE), Return(FALSE), or the throw of a malformed expected type
isValidType(argumentType, expectedType) ==
    IF getType(expectedType) = "string"
    THEN Return(argumentType = expectedType.str)
    ELSE IF expectedType.type = "array"
    THEN Return(\E i \in 1..Len(expectedType.elems) :
                    expectedType.elems[i] = Str(argumentType))
    ELSE typeErrorMessage(<<"The expected type">>, Str("string or array"),
                          getType(expectedType))

\* the outcome of checking entry `checking` = <<name, value, expectedType>>
checkOne(checking) ==
    LET valid == isValidType(getType(checking[2]), checking[3])
    IN  IF valid.kind = "throw" THEN valid
        ELSE IF ~valid.value
        THEN typeErrorMessage(checking[1], checking[3], getType(checking[2]))
        ELSE Return(Undefined)

\* checkingArray.map(...): the first entry that throws ends the call
checkTypes(checkingArray) ==
    LET bad == {i \in 1..Len(checkingArray) :
                    checkOne(checkingArray[i]).kind = "throw"}
    IN  IF bad = {} THEN Return(Undefined)
        ELSE checkOne(checkingArray[CHOOSE i \in bad : \A j \in bad : i <= j])

NumberOrArray == Arr("expected", <<Str("number"), Str("array")>>)

-----------------------------------------------------------------------------
(* src/eKeys.jsx: validateKeyframe *)

KeyframeProps ==
    {"keyTime", "keyValue", "easeIn", "easeOut", "velocityIn", "velocityOut"}

\* Make sure that a given keyframe is valid; sets defaults and checks for errors.
\* `index` is the 0-based position in the input list.
validateKeyframe(key, index) ==
    LET keyTime == Prop(key, "keyTime")
        keyValue == Prop(key, "keyValue")
        easeIn == OrDefault(Prop(key, "easeIn"), Num(RInt(33)))
        easeOut == OrDefault(Prop(key, "easeOut"), Num(RInt(33)))
        velocityIn == OrDefault(Prop(key, "velocityIn"), Num(RInt(0)))
        velocityOut == OrDefault(Prop(key, "velocityOut"), Num(RInt(0)))
        invalidPropNames == DOMAIN key \ KeyframeProps
        types == checkTypes(<<
            <<<<"Keyframe", index, "time">>, keyTime, Str("number")>>,
            <<<<"Keyframe", index, "value">>, keyValue, NumberOrArray>>,
            <<<<"Keyframe", index, "easeIn">>, easeIn, Str("number")>>,
            <<<<"Keyframe", index, "easeOut">>, easeOut, Str("number")>>,
            <<<<"Keyframe", index, "velocityIn">>, velocityIn, Str("number")>>,
            <<<<"Keyframe", index, "velocityOut">>, velocityOut, Str("number")>> >>)
    IN  IF invalidPropNames # {}
        THEN Throw("Error", [tmpl |-> "Unexpected property on keyframe",
                             index |-> index,
                             names |-> invalidPropNames,
                             triedTime |-> "time" \in invalidPropNames,
                             triedValue |-> "value" \in invalidPropNames])
        ELSE IF keyTime \in {Null, Undefined}
        THEN requiredArgumentError("keyValue", <<"keyframe", index>>)
        ELSE IF keyValue \in {Null, Undefined}
        THEN requiredArgumentError("keyValue", <<"keyframe", index>>)
        ELSE IF types.kind = "throw" THEN types
        ELSE Return([keyTime |-> keyTime, keyValue |-> keyValue,
                     easeIn |-> easeIn, easeOut |-> easeOut,
                     velocityIn |-> velocityIn, velocityOut |-> velocityOut])

-----------------------------------------------------------------------------
(* .sort((a, b) => a.keyTime - b.keyTime) *)

\* the comparator: a.keyTime - b.keyTime
compareKeyTime(a, b) == RSub(a.keyTime.num, b.keyTime.num)

\* `key` put into the sorted `sorted`, after every element it does not precede
RECURSIVE insertSorted(_, _)
insertSorted(sorted, key) ==
    IF sorted = <<>> THEN <<key>>
    ELSE IF RLt(compareKeyTime(key, sorted[Len(sorted)]), RInt(0))
    THEN Append(insertSorted(SubSeq(sorted, 1, Len(sorted) - 1), key),
                sorted[Len(sorted)])
    ELSE Append(sorted, key)

\* the validated list left in the order given, the .sort() call dropped
sortByKeyTime_unsorted(list) == list

\* Array.prototype.sort with the keyTime comparator (stable)
RECURSIVE sortByKeyTime(_)
sortByKeyTime(list) ==
    IF list = <<>> THEN <<>>
    ELSE insertSorted(sortByKeyTime(SubSeq(list, 1, Len(list) - 1)),
                      list[Len(list)])

-----------------------------------------------------------------------------
(* src/eKeys.jsx: the interpolators table and the Bezier easing *)

\* eKeys.interpolators[f.name](t), for the entries a caller passes here
callInterpolator(f, t, easeOut, easeIn) ==
    IF f.name = "linear" THEN Num(t)
    ELSE IF f.name = "easeInQuad" THEN Num(RMul(t, t))
    ELSE IF f.name = "easeOutQuad" THEN Num(RMul(t, RSub(RInt(2), t)))
    ELSE Num(RMul(RMul(t, t), t))

\* the range test of bezier() with mX2 left out
bezierOutOfRange_x1Only(mX1, mX2) ==
    ~(RGe(mX1, RInt(0)) /\ RLe(mX1, RInt(1)))

\* the range test of bezier(): !(mX1 >= 0 && mX1 <= 1 && mX2 >= 0 && mX2 <= 1)
bezierOutOfRange(mX1, mX2) ==
    ~(RGe(mX1, RInt(0)) /\ RLe(mX1, RInt(1)) /\ RGe(mX2, RInt(0)) /\ RLe(mX2, RInt(1)))

\* bezier(mX1, mY1, mX2, mY2): throws, or returns LinearEasing or bezierEasing
bezier(mX1, mY1, mX2, mY2) ==
    IF bezierOutOfRange(mX1, mX2)
    THEN Throw("Error", [tmpl |-> "bezier x values must be in [0, 1] range"])
    ELSE IF REq(mX1, mY1) /\ REq(mX2, mY2)
    THEN Return([fn |-> "LinearEasing"])
    ELSE Return([fn |-> "bezierEasing",
                 mX1 |-> mX1, mY1 |-> mY1, mX2 |-> mX2, mY2 |-> mY2])

\* easing(x).  `solved` stands for calcBezier(getTForX(x), mY1, mY2), the
\* floating point result of the spline solver, which is left open here.
applyEasing(easing, x, solved) ==
    IF easing.fn = "LinearEasing" THEN x
    ELSE IF REq(x, RInt(0)) THEN RInt(0)
    ELSE IF REq(x, RInt(1)) THEN RInt(1)
    ELSE solved

-----------------------------------------------------------------------------
(* src/eKeys.jsx: animateBetweenKeys and its helpers *)

\* getCurrentKeyNum's loop with `time > keys[curKeyNum + 1].keyTime`
RECURSIVE getCurrentKeyNumFrom_strict(_, _, _)
getCurrentKeyNumFrom_strict(sortedKeys, time, curKeyNum) ==
    IF curKeyNum < Len(sortedKeys) - 1
       /\ RLt(sortedKeys[curKeyNum + 2].keyTime.num, time)
    THEN getCurrentKeyNumFrom_strict(sortedKeys, time, curKeyNum + 1)
    ELSE curKeyNum

\* Set current key to most recent keyframe (0-based result)
RECURSIVE getCurrentKeyNumFrom(_, _, _)
getCurrentKeyNumFrom(sortedKeys, time, curKeyNum) ==
    IF curKeyNum < Len(sortedKeys) - 1
       /\ RGe(time, sortedKeys[curKeyNum + 2].keyTime.num)
    THEN getCurrentKeyNumFrom(sortedKeys, time, curKeyNum + 1)
    ELSE curKeyNum

getCurrentKeyNum(sortedKeys, time) == getCurrentKeyNumFrom(sortedKeys, time, 0)

\* animateValueFromProgress with the delta taken as startVal - endVal
animateValueFromProgress_swapped(startVal, endVal, progressAmount) ==
    LET valueDelta == JsSub(startVal, endVal)
    IN  JsAdd(startVal, JsMul(valueDelta, progressAmount))

\* Animate between values according to progress
animateValueFromProgress(startVal, endVal, progressAmount) ==
    LET valueDelta == JsSub(endVal, startVal)
    IN  JsAdd(startVal, JsMul(valueDelta, progressAmount))

\* animateArrayFromProgress with the first dimension's delta used for every one
animateArrayFromProgress_firstDelta(startArray, endArray, progressAmount, curKeyNum) ==
    IF Len(startArray.elems) # Len(endArray.elems)
    THEN Throw("TypeError", [tmpl |-> "values must be of the same dimension",
                             keyframe |-> curKeyNum,
                             next |-> curKeyNum + 1,
                             received |-> <<Len(startArray.elems),
                                            Len(endArray.elems)>>])
    ELSE LET arrayDelta ==
                 [i \in 1..Len(endArray.elems) |->
                     JsSub(endArray.elems[i], At(startArray.elems, i - 1))]
             deltaProgressed ==
                 [i \in 1..Len(arrayDelta) |-> JsMul(arrayDelta[i], progressAmount)]
         IN  Return(Arr("result",
                 [i \in 1..Len(startArray.elems) |->
                     JsAdd(startArray.elems[i], At(deltaProgressed, 0))]))

\* Performs animation on each element of array individually
animateArrayFromProgress(startArray, endArray, progressAmount, curKeyNum) ==
    IF Len(startArray.elems) # Len(endArray.elems)
    THEN Throw("TypeError", [tmpl |-> "values must be of the same dimension",
                             keyframe |-> curKeyNum,
                             next |-> curKeyNum + 1,
                             received |-> <<Len(startArray.elems),
                                            Len(endArray.elems)>>])
    ELSE LET arrayDelta ==
                 [i \in 1..Len(endArray.elems) |->
                     JsSub(endArray.elems[i], At(startArray.elems, i - 1))]
             deltaProgressed ==
                 [i \in 1..Len(arrayDelta) |-> JsMul(arrayDelta[i], progressAmount)]
         IN  Return(Arr("result",
                 [i \in 1..Len(startArray.elems) |->
                     JsAdd(startArray.elems[i], At(deltaProgressed, i - 1))]))

\* what one evaluation did: its outcome, the bezier() constructions and the
\* interpolator calls it made (argument lists, in order), the eased progress
\* it interpolated with (undefined when it computed none), and the segment it
\* computed the linear progress of (undefined when it computed none)
Did(outcome, bezierCalls, interpolatorCalls, easedProgress) ==
    [outcome |-> outcome, bezierCalls |-> bezierCalls,
     interpolatorCalls |-> interpolatorCalls, easedProgress |-> easedProgress,
     segment |-> Undefined]

\* the locals of one progress computation: the located pair, movedTime,
\* animationLength (deltaT) and linearProgress (timeInput)
Segment(curKeyNum, curKey, nextKey, movedTime, animationLength, linearProgress) ==
    [curKeyNum |-> curKeyNum, curKey |-> curKey, nextKey |-> nextKey,
     movedTime |-> movedTime, animationLength |-> animationLength,
     linearProgress |-> linearProgress]

\* the evaluation `did` went through the progress computation of `segment`
Progressed(segment, did) == [did EXCEPT !.segment = segment]

\* keys[curKeyNum + 1] is undefined: reading a property of it throws
NoNextKey == Throw("TypeError", [tmpl |-> "cannot read property of undefined"])

\* the interpolator option ignored
usesInterpolator_never(interpolator) == FALSE

\* interpolator !== undefined
usesInterpolator(interpolator) == interpolator # Undefined

\* the part of animateBetweenKeys after the early returns
animateSegment(sortedKeys, time, interpolator, solved) ==
    LET curKeyNum == getCurrentKeyNum(sortedKeys, time)
        curKey == sortedKeys[curKeyNum + 1]
        nextKey == sortedKeys[curKeyNum + 2]
        movedTime == RMax(RSub(time, curKey.keyTime.num), RInt(0))
        animationLength == RSub(nextKey.keyTime.num, curKey.keyTime.num)
        linearProgress == RMin(RInt(1), RDiv(movedTime, animationLength))
        bezierArgs == <<RDiv(curKey.easeOut.num, RInt(100)),
                        RDiv(curKey.velocityOut.num, RInt(100)),
                        RSub(RInt(1), RDiv(nextKey.easeIn.num, RInt(100))),
                        RSub(RInt(1), RDiv(nextKey.velocityIn.num, RInt(100)))>>
        easing == bezier(bezierArgs[1], bezierArgs[2], bezierArgs[3], bezierArgs[4])
        interpolatorArgs == <<Num(linearProgress), curKey.easeOut, nextKey.easeIn>>
        bezierCalls == IF usesInterpolator(interpolator) THEN <<>> ELSE <<bezierArgs>>
        interpolatorCalls ==
            IF usesInterpolator(interpolator) THEN <<interpolatorArgs>> ELSE <<>>
        easedProgress ==
            IF usesInterpolator(interpolator)
            THEN callInterpolator(interpolator, linearProgress,
                                  curKey.easeOut, nextKey.easeIn)
            ELSE Num(applyEasing(easing.value, linearProgress, solved))
        segment == Segment(curKeyNum, curKey, nextKey,
                           movedTime, animationLength, linearProgress)
    IN  IF curKeyNum + 2 > Len(sortedKeys)
        THEN Did(NoNextKey, <<>>, <<>>, Undefined)
        ELSE IF StrictEq(curKey.keyValue, nextKey.keyValue)
        THEN Did(Return(curKey.keyValue), <<>>, <<>>, Undefined)
        ELSE IF REq(time, curKey.keyTime.num)
        THEN Did(Return(curKey.keyValue), <<>>, <<>>, Undefined)
        ELSE IF ~usesInterpolator(interpolator) /\ easing.kind = "throw"
        THEN Progressed(segment,
                 Did(easing, bezierCalls, interpolatorCalls, Undefined))
        ELSE IF curKey.keyValue.type = "array" /\ nextKey.keyValue.type = "array"
        THEN Progressed(segment,
                 Did(animateArrayFromProgress(curKey.keyValue, nextKey.keyValue,
                                              easedProgress, curKeyNum),
                     bezierCalls, interpolatorCalls, easedProgress))
        ELSE IF curKey.keyValue.type = "number" /\ nextKey.keyValue.type = "number"
        THEN Progressed(segment,
                 Did(Return(animateValueFromProgress(curKey.keyValue,
                                                     nextKey.keyValue,
                                                     easedProgress)),
                     bezierCalls, interpolatorCalls, easedProgress))
        ELSE Progressed(segment,
                 Did(Throw("Error", [tmpl |-> "values must be of the same type",
                                     keyframe |-> curKeyNum,
                                     next |-> curKeyNum + 1,
                                     received |-> <<getType(curKey.keyValue),
                                                    getType(nextKey.keyValue)>>]),
                     bezierCalls, interpolatorCalls, easedProgress))

\* animateBetweenKeys with `time < firstKey.keyTime` for the first early return
animateBetweenKeys_strictFirst(sortedKeys, time, interpolator, solved) ==
    IF sortedKeys = <<>>
    THEN Did(Throw("TypeError", [tmpl |-> "cannot read property of undefined"]),
             <<>>, <<>>, Undefined)
    ELSE LET lastKey == sortedKeys[Len(sortedKeys)]
             firstKey == sortedKeys[1]
         IN  IF RLt(time, firstKey.keyTime.num)
             THEN Did(Return(firstKey.keyValue), <<>>, <<>>, Undefined)
             ELSE IF RGe(time, lastKey.keyTime.num)
             THEN Did(Return(lastKey.keyValue), <<>>, <<>>, Undefined)
             ELSE animateSegment(sortedKeys, time, interpolator, solved)

\* Returns the final animated value
animateBetweenKeys(sortedKeys, time, interpolator, solved) ==
    IF sortedKeys = <<>>
    THEN Did(Throw("TypeError", [tmpl |-> "cannot read property of undefined"]),
             <<>>, <<>>, Undefined)
    ELSE LET lastKey == sortedKeys[Len(sortedKeys)]
             firstKey == sortedKeys[1]
         IN  IF RLe(time, firstKey.keyTime.num)
             THEN Did(Return(firstKey.keyValue), <<>>, <<>>, Undefined)
             ELSE IF RGe(time, lastKey.keyTime.num)
             THEN Did(Return(lastKey.keyValue), <<>>, <<>>, Undefined)
             ELSE animateSegment(sortedKeys, time, interpolator, solved)

\* inputKeyframes.map((key, index) => validateKeyframe(key, index)):
\* the validated list, or the throw of the first keyframe that fails
validateAll(list) ==
    LET bad == {i \in 1..Len(list) : validateKeyframe(list[i], i - 1).kind = "throw"}
    IN  IF bad = {}
        THEN Return([i \in 1..Len(list) |-> validateKeyframe(list[i], i - 1).value])
        ELSE validateKeyframe(list[CHOOSE i \in bad : \A j \in bad : i <= j],
                              (CHOOSE i \in bad : \A j \in bad : i <= j) - 1)

\* animate with the keyframes that fail validation left out of the evaluation
animate_lenient(list, inputTime, interpolator, solved) ==
    LET accepted(key) == validateKeyframe(key, 0).kind = "return"
        kept == SelectSeq(list, accepted)
    IN  animateBetweenKeys(
            sortByKeyTime([i \in 1..Len(kept) |-> validateKeyframe(kept[i], 0).value]),
            inputTime.num, interpolator, solved)

\* eKeys.animate(list, {inputTime, interpolator})
animate(list, inputTime, interpolator, solved) ==
    LET types == checkTypes(<<
            <<<<".animate() input keyframes">>, Arr("input", list), Str("array")>>,
            <<<<".animate() input time">>, inputTime, Str("number")>> >>)
        validKeys == validateAll(list)
    IN  IF types.kind = "throw" THEN Did(types, <<>>, <<>>, Undefined)
        ELSE IF validKeys.kind = "throw" THEN Did(validKeys, <<>>, <<>>, Undefined)
        ELSE animateBetweenKeys(sortByKeyTime(validKeys.value), inputTime.num,
                                interpolator, solved)

-----------------------------------------------------------------------------
(* src/unnamed/part_000: AnimGroup(inputKeyframes) *)

\* typeErrorMessage(check[0], expectedType, argumentType): names the value itself
AG_checkOne(check) ==
    LET valid == isValidType(getType(check[1]), check[2])
    IN  IF valid.kind = "throw" THEN valid
        ELSE IF ~valid.value
        THEN typeErrorMessage(check[1], check[2], getType(check[1]))
        ELSE Return(Undefined)

\* Loops through an array of the format [variable, 'expectedType']
AG_checkTypes(checkingArray) ==
    LET bad == {i \in 1..Len(checkingArray) :
                    AG_checkOne(checkingArray[i]).kind = "throw"}
    IN  IF bad = {} THEN Return(Undefined)
        ELSE AG_checkOne(checkingArray[CHOOSE i \in bad : \A j \in bad : i <= j])

\* Make sure that a given keyframe is valid; sets defaults and checks for errors
AG_validateKeyframe(key, index) ==
    LET keyTime == Prop(key, "keyTime")
        keyValue == Prop(key, "keyValue")
        easeIn == OrDefault(Prop(key, "easeIn"), Num(RInt(33)))
        easeOut == OrDefault(Prop(key, "easeOut"), Num(RInt(33)))
        velocityIn == OrDefault(Prop(key, "velocityIn"), Num(RInt(0)))
        velocityOut == OrDefault(Prop(key, "velocityOut"), Num(RInt(0)))
        types == AG_checkTypes(<<
            <<keyTime, Str("number")>>,
            <<keyValue, NumberOrArray>>,
            <<easeIn, Str("number")>>,
            <<easeOut, Str("number")>>,
            <<velocityIn, Str("number")>>,
            <<velocityOut, Str("number")>> >>)
    IN  IF keyTime = Undefined
        THEN requiredArgumentError("keyTime", <<"keyframe", index>>)
        ELSE IF keyValue = Undefined
        THEN requiredArgumentError("keyValue", <<"keyframe", index>>)
        ELSE IF types.kind = "throw" THEN types
        ELSE Return([keyTime |-> keyTime, keyValue |-> keyValue,
                     easeIn |-> easeIn, easeOut |-> easeOut,
                     velocityIn |-> velocityIn, velocityOut |-> velocityOut])

\* const keys = inputKeyframes.map(validateKeyframe).sort(...):
\* the sorted keys, or the throw of the first keyframe that fails
AG_keys(list) ==
    LET bad == {i \in 1..Len(list) :
                    AG_validateKeyframe(list[i], i - 1).kind = "throw"}
        first == CHOOSE i \in bad : \A j \in bad : i <= j
    IN  IF bad = {}
        THEN Return(sortByKeyTime(
                 [i \in 1..Len(list) |-> AG_validateKeyframe(list[i], i - 1).value]))
        ELSE AG_validateKeyframe(list[first], first - 1)

\* Performs animation on each element of array individually (no length check)
AG_animateArrayFromProgress(startArray, endArray, progressAmount) ==
    IF startArray.type # "array" \/ endArray.type # "array"
    THEN Throw("TypeError", [tmpl |-> "map is not a function"])
    ELSE LET arrayDelta ==
                 [i \in 1..Len(endArray.elems) |->
                     JsSub(endArray.elems[i], At(startArray.elems, i - 1))]
             deltaProgressed ==
                 [i \in 1..Len(arrayDelta) |-> JsMul(arrayDelta[i], progressAmount)]
         IN  Return(Arr("result",
                 [i \in 1..Len(startArray.elems) |->
                     JsAdd(startArray.elems[i], At(deltaProgressed, i - 1))]))

\* Animate between values according to progress
AG_animateValueFromProgress(startVal, endVal, progressAmount) ==
    LET valueDelta == JsSub(endVal, startVal)
    IN  JsAdd(startVal, JsMul(valueDelta, progressAmount))

\* the part of anim() after the early returns
AG_animateSegment(sortedKeys, time, solved) ==
    LET curKeyNum == getCurrentKeyNum(sortedKeys, time)
        curKey == sortedKeys[curKeyNum + 1]
        nextKey == sortedKeys[curKeyNum + 2]
        bezierArgs == <<RDiv(curKey.easeOut.num, RInt(100)),
                        RDiv(curKey.velocityOut.num, RInt(100)),
                        RSub(RInt(1), RDiv(nextKey.easeIn.num, RInt(100))),
                        RSub(RInt(1), RDiv(nextKey.velocityIn.num, RInt(100)))>>
        easingCurve == bezier(bezierArgs[1], bezierArgs[2], bezierArgs[3], bezierArgs[4])
        deltaT == RSub(nextKey.keyTime.num, curKey.keyTime.num)
        movedTime == RMax(RSub(time, curKey.keyTime.num), RInt(0))
        timeInput == RMin(RInt(1), RDiv(movedTime, deltaT))
        progress == Num(applyEasing(easingCurve.value, timeInput, solved))
        segment == Segment(curKeyNum, curKey, nextKey, movedTime, deltaT, timeInput)
    IN  IF curKeyNum + 2 > Len(sortedKeys)
        THEN Did(NoNextKey, <<>>, <<>>, Undefined)
        ELSE IF StrictEq(Prop(curKey, "value"), Prop(nextKey, "value"))
        THEN Did(Return(Prop(curKey, "value")), <<>>, <<>>, Undefined)
        ELSE IF easingCurve.kind = "throw"
        THEN Did(easingCurve, <<bezierArgs>>, <<>>, Undefined)
        ELSE IF curKey.keyValue.type = "array" \/ nextKey.keyValue.type = "array"
        THEN Progressed(segment,
                 Did(AG_animateArrayFromProgress(curKey.keyValue, nextKey.keyValue,
                                                 progress),
                     <<bezierArgs>>, <<>>, progress))
        ELSE Progressed(segment,
                 Did(Return(AG_animateValueFromProgress(curKey.keyValue,
                                                        nextKey.keyValue, progress)),
                     <<bezierArgs>>, <<>>, progress))

\* publicAPI.anim(time)
AG_animateBetweenKeys(sortedKeys, time, solved) ==
    LET types == AG_checkTypes(<< <<time, Str("number")>> >>)
    IN  IF time = Undefined
        THEN Did(requiredArgumentError("time", <<".anim inputs">>), <<>>, <<>>, Undefined)
        ELSE IF types.kind = "throw" THEN Did(types, <<>>, <<>>, Undefined)
        ELSE IF sortedKeys = <<>>
        THEN Did(Throw("TypeError", [tmpl |-> "cannot read property of undefined"]),
                 <<>>, <<>>, Undefined)
        ELSE IF RLe(time.num, sortedKeys[1].keyTime.num)
        THEN Did(Return(sortedKeys[1].keyValue), <<>>, <<>>, Undefined)
        ELSE IF RGe(time.num, sortedKeys[Len(sortedKeys)].keyTime.num)
        THEN Did(Return(sortedKeys[Len(sortedKeys)].keyValue), <<>>, <<>>, Undefined)
        ELSE AG_animateSegment(sortedKeys, time.num, solved)

-----------------------------------------------------------------------------
(* Inputs the host supplies *)

\* keyframe times on the timeline
KeyTimes == {Num(RInt(0)), Num(RInt(5)), Num(RInt(10))}

\* query times: before, on, between and after the keyframe times, and NaN
QueryTimes ==
    {Num(RInt(-5)), Num(RInt(0)), Num(Rat(5, 2)), Num(RInt(5)), Num(Rat(15, 2)),
     Num(RInt(10)), Num(RInt(15)), Num(NaN)}

\* options.interpolator: omitted, or an entry of eKeys.interpolators
Interpolators == {Undefined, Fn("linear"), Fn("easeInQuad")}

\* results the spline solver may produce for an interior progress
SolverValues == {Rat(1, 3), Rat(5, 4)}

NoEase == [f \in {} |-> Undefined]

\* easeOut == velocityOut and easeIn == velocityIn: bezier() is LinearEasing
EaseLinear == [easeIn |-> Num(RInt(0)), easeOut |-> Num(RInt(0))]

\* handles outside 0..100, each equal to its velocity
EaseWide ==
    [easeIn |-> Num(RInt(-10)), easeOut |-> Num(RInt(150)),
     velocityIn |-> Num(RInt(-10)), velocityOut |-> Num(RInt(150))]

\* large velocities, handles inside 0..100
EaseVelocity ==
    [easeIn |-> Num(RInt(100)), easeOut |-> Num(RInt(0)),
     velocityIn |-> Num(RInt(500)), velocityOut |-> Num(RInt(-300))]

\* the descriptors {keyTime: t, keyValue: v, ...e}
Descriptors(times, values, eases) ==
    {[keyTime |-> t, keyValue |-> v] @@ e : t \in times, v \in values, e \in eases}

\* the lists of at most MaxKeys descriptors of `pool`
ListsOver(pool) == UNION {[1..n -> pool] : n \in 0..MaxKeys}

\* scalar keyframes on three times, linear easing
ScalarPool == Descriptors(KeyTimes, {Num(RInt(0)), Num(RInt(100))}, {EaseLinear})

\* the segment (0, 0) -> (10, 100) under each easing
EasePool ==
    Descriptors({Num(RInt(0))}, {Num(RInt(0))},
                {EaseLinear, EaseWide, EaseVelocity})
    \cup Descriptors({Num(RInt(10))}, {Num(RInt(100))},
                     {EaseLinear, EaseWide, EaseVelocity})

ArrayA == Arr("a", <<Num(RInt(0)), Num(RInt(0))>>)

ArrayB == Arr("b", <<Num(RInt(10)), Num(RInt(20))>>)

ArrayC == Arr("c", <<Num(RInt(0)), Num(RInt(0)), Num(RInt(0))>>)

\* array keyframes: two dimensions and three, one array object used twice
VectorPool ==
    Descriptors({Num(RInt(0))}, {ArrayA}, {EaseLinear, NoEase})
    \cup Descriptors({Num(RInt(10))}, {ArrayB}, {EaseLinear, NoEase})
    \cup Descriptors({Num(RInt(10))}, {ArrayC}, {EaseLinear})
    \cup Descriptors({Num(RInt(5))}, {ArrayA}, {EaseLinear})

\* descriptors as a host may write them, valid or not
RawPool ==
    {[keyTime |-> Num(RInt(0)), keyValue |-> Num(RInt(0))],
     [keyTime |-> Num(RInt(10)), keyValue |-> Num(RInt(100))],
     [keyValue |-> Num(RInt(5))],
     [keyTime |-> Num(RInt(5))],
     [keyTime |-> Num(RInt(5)), keyValue |-> Num(RInt(1)), time |-> Num(RInt(5))],
     [keyTime |-> Num(RInt(5)), keyValue |-> Num(RInt(1)), foo |-> Str("bar")]}

\* an array with an element that is not a number
ArrayMixed == Arr("m", <<Num(RInt(0)), Str("a")>>)

\* keyValues of every shape: a number, arrays of numbers and not, a string, an
\* object, null; and a descriptor with no keyTime
ShapePool ==
    {[keyTime |-> Num(RInt(0)), keyValue |-> Num(RInt(0))],
     [keyTime |-> Num(RInt(10)), keyValue |-> ArrayB],
     [keyTime |-> Num(RInt(5)), keyValue |-> ArrayMixed],
     [keyTime |-> Num(RInt(5)), keyValue |-> Str("5")],
     [keyTime |-> Num(RInt(5)), keyValue |-> Obj("o")],
     [keyTime |-> Num(RInt(5)), keyValue |-> Null],
     [keyValue |-> Num(RInt(5))]}

-----------------------------------------------------------------------------
(* The state machine: a host holding one keyframe list calls the entry points *)
(* and takes each result before it calls again.                              *)

InitOver(pool) ==
    /\ inputKeyframes \in ListsOver(pool)
    /\ group = "none"
    /\ keys = <<>>
    /\ call = [form |-> "none"]

Init == InitOver(ScalarPool)

InitEase == InitOver(EasePool)

InitVector == InitOver(VectorPool)

InitRaw == InitOver(RawPool)

InitShape == InitOver(ShapePool)

\* eKeys.animate(inputKeyframes, {inputTime: time, interpolator})
Animate(time, interpolator) ==
    /\ call.form = "none"
    /\ \E solved \in SolverValues :
        LET did == animate(inputKeyframes, time, interpolator, solved)
        IN  call' = [form |-> "animate", time |-> time,
                     interpolator |-> interpolator,
                     outcome |-> did.outcome,
                     bezierCalls |-> did.bezierCalls,
                     interpolatorCalls |-> did.interpolatorCalls,
                     easedProgress |-> did.easedProgress,
                     segment |-> did.segment]
    /\ UNCHANGED <<inputKeyframes, group, keys>>

\* AnimGroup(inputKeyframes)
Construct ==
    /\ call.form = "none"
    /\ group = "none"
    /\ LET made == AG_keys(inputKeyframes)
       IN  IF made.kind = "throw"
           THEN /\ group' = "failed"
                /\ keys' = <<>>
                /\ call' = [form |-> "AnimGroup", outcome |-> made]
           ELSE /\ group' = "ready"
                /\ keys' = made.value
                /\ call' = [form |-> "AnimGroup",
                            outcome |-> Return([anim |-> Fn("animateBetweenKeys")])]
    /\ UNCHANGED inputKeyframes

\* the AnimGroup's anim(time)
Anim(time) ==
    /\ call.form = "none"
    /\ group = "ready"
    /\ \E solved \in SolverValues :
        LET did == AG_animateBetweenKeys(keys, time, solved)
        IN  call' = [form |-> "anim", time |-> time,
                     outcome |-> did.outcome,
                     bezierCalls |-> did.bezierCalls,
                     interpolatorCalls |-> did.interpolatorCalls,
                     easedProgress |-> did.easedProgress,
                     segment |-> did.segment]
    /\ UNCHANGED <<inputKeyframes, group, keys>>

\* the host takes the value or the error of the call it made
TakeResult ==
    /\ call.form # "none"
    /\ call' = [form |-> "none"]
    /\ UNCHANGED <<inputKeyframes, group, keys>>

Next ==
    \/ \E time \in QueryTimes, interpolator \in Interpolators :
           Animate(time, interpolator)
    \/ Construct
    \/ \E time \in QueryTimes : Anim(time)
    \/ TakeResult

Spec == Init /\ [][Next]_vars

SpecEase == InitEase /\ [][Next]_vars

SpecVector == InitVector /\ [][Next]_vars

SpecRaw == InitRaw /\ [][Next]_vars

SpecShape == InitShape /\ [][Next]_vars

-----------------------------------------------------------------------------
(* Vocabulary of the properties, stated on the list as the host gave it *)

\* a descriptor validation accepts: recognized fields only, keyTime a number,
\* keyValue a number or an array, the easing fields numbers when present
ValidDescriptor(k) ==
    /\ DOMAIN k \subseteq KeyframeProps
    /\ {"keyTime", "keyValue"} \subseteq DOMAIN k
    /\ k.keyTime.type = "number"
    /\ k.keyValue.type \in {"number", "array"}
    /\ \A f \in DOMAIN k \ {"keyTime", "keyValue"} : k[f].type = "number"

ValidInput == \A i \in 1..Len(inputKeyframes) : ValidDescriptor(inputKeyframes[i])

KeyTimeAt(i) == inputKeyframes[i].keyTime.num

\* position in the given list of the first keyframe of the sorted sequence:
\* the earliest keyTime, and among equal keyTimes the one given first
FirstIndex ==
    CHOOSE i \in 1..Len(inputKeyframes) : \A j \in 1..Len(inputKeyframes) :
        RLt(KeyTimeAt(i), KeyTimeAt(j)) \/ (KeyTimeAt(i) = KeyTimeAt(j) /\ i <= j)

\* position of the last keyframe of the sorted sequence
LastIndex ==
    CHOOSE i \in 1..Len(inputKeyframes) : \A j \in 1..Len(inputKeyframes) :
        RLt(KeyTimeAt(j), KeyTimeAt(i)) \/ (KeyTimeAt(i) = KeyTimeAt(j) /\ j <= i)

\* position of the i-th given keyframe in the sorted sequence
Rank(i) ==
    1 + Cardinality({j \in 1..Len(inputKeyframes) :
            RLt(KeyTimeAt(j), KeyTimeAt(i)) \/ (KeyTimeAt(j) = KeyTimeAt(i) /\ j < i)})

\* an evaluation by either entry point has just been made
Evaluated == call.form \in {"animate", "anim"}

\* the evaluation built no Bezier easing and called no interpolator
NoEasing == call.bezierCalls = <<>> /\ call.interpolatorCalls = <<>>

-----------------------------------------------------------------------------
(* C1 *)

\* C1 as stated: at time <= the smallest keyTime the evaluation returns the
\* keyValue of the first keyframe of the sorted sequence, and at time >= the
\* largest keyTime that of the last one, in both forms, without easing.
C1_AsStated ==
    (Evaluated /\ ValidInput /\ Len(inputKeyframes) >= 1) =>
        /\ RLe(call.time.num, KeyTimeAt(FirstIndex)) =>
               /\ call.outcome = Return(inputKeyframes[FirstIndex].keyValue)
               /\ NoEasing
        /\ RGe(call.time.num, KeyTimeAt(LastIndex)) =>
               /\ call.outcome = Return(inputKeyframes[LastIndex].keyValue)
               /\ NoEasing

\* C1 (amended): at time <= the smallest keyTime the evaluation returns the
\* keyValue of the first keyframe of the sorted sequence; at time >= the largest
\* keyTime and > the smallest keyTime it returns the keyValue of the last
\* keyframe of the sorted sequence; in both forms, without building the Bezier
\* easing or calling an interpolator.
C1_Boundary ==
    (Evaluated /\ ValidInput /\ Len(inputKeyframes) >= 1) =>
        /\ RLe(call.time.num, KeyTimeAt(FirstIndex)) =>
               /\ call.outcome = Return(inputKeyframes[FirstIndex].keyValue)
               /\ NoEasing
        /\ (RGe(call.time.num, KeyTimeAt(LastIndex))
            /\ RLt(KeyTimeAt(FirstIndex), call.time.num)) =>
               /\ call.outcome = Return(inputKeyframes[LastIndex].keyValue)
               /\ NoEasing

\* C1 witness: anim() of an AnimGroup, queried after the last of three
\* keyframes, has returned the last keyframe's value, which the first lacks
C1_Witness ==
    /\ call.form = "anim"
    /\ Len(inputKeyframes) = 3
    /\ RLt(KeyTimeAt(LastIndex), call.time.num)
    /\ inputKeyframes[FirstIndex].keyValue # inputKeyframes[LastIndex].keyValue
    /\ call.outcome = Return(inputKeyframes[LastIndex].keyValue)

-----------------------------------------------------------------------------
(* C2 *)

\* C2 as stated: eKeys.animate at the keyTime of any keyframe that is neither
\* first nor last in the sorted sequence returns that keyframe's keyValue,
\* with no easing.
C2_AsStated ==
    (call.form = "animate" /\ ValidInput) =>
        \A i \in 1..Len(inputKeyframes) :
            (1 < Rank(i) /\ Rank(i) < Len(inputKeyframes)
             /\ call.time.num = KeyTimeAt(i)) =>
                /\ call.outcome = Return(inputKeyframes[i].keyValue)
                /\ NoEasing

\* C2 (amended): eKeys.animate at the keyTime of a keyframe k whose keyTime lies
\* strictly between the smallest and the largest keyTime, and which is the last
\* keyframe of the sorted sequence with that keyTime (so every interior keyframe
\* whose keyTime no other keyframe shares), returns exactly k.keyValue, with no
\* easing or interpolation.
C2_ExactHit ==
    (call.form = "animate" /\ ValidInput) =>
        \A i \in 1..Len(inputKeyframes) :
            (/\ RLt(KeyTimeAt(FirstIndex), KeyTimeAt(i))
             /\ RLt(KeyTimeAt(i), KeyTimeAt(LastIndex))
             /\ \A j \in 1..Len(inputKeyframes) : KeyTimeAt(j) = KeyTimeAt(i) => j <= i
             /\ call.time.num = KeyTimeAt(i)) =>
                /\ call.outcome = Return(inputKeyframes[i].keyValue)
                /\ NoEasing

\* C2 witness: the middle one of three keyframes with different keyTimes was
\* hit exactly and its value, which neither neighbour has, was returned
C2_Witness ==
    /\ call.form = "animate"
    /\ Len(inputKeyframes) = 3
    /\ \E i \in 1..3 :
        /\ Rank(i) = 2
        /\ RLt(KeyTimeAt(FirstIndex), KeyTimeAt(i))
        /\ RLt(KeyTimeAt(i), KeyTimeAt(LastIndex))
        /\ call.time.num = KeyTimeAt(i)
        /\ inputKeyframes[FirstIndex].keyValue # inputKeyframes[i].keyValue
        /\ inputKeyframes[LastIndex].keyValue # inputKeyframes[i].keyValue
        /\ call.outcome = Return(inputKeyframes[i].keyValue)

-----------------------------------------------------------------------------
(* C8 *)

Arrangements(n) ==
    {p \in [1..n -> 1..n] : \A a, b \in 1..n : a # b => p[a] # p[b]}

\* the list holds its keyframes in ascending keyTime order
Ascending(list) ==
    \A a, b \in 1..Len(list) :
        a < b => RLe(list[a].keyTime.num, list[b].keyTime.num)

\* the arrangements of the given keyframes that are sorted ascending by keyTime
PreSorted ==
    {list \in {[a \in 1..Len(inputKeyframes) |-> inputKeyframes[p[a]]] :
                  p \in Arrangements(Len(inputKeyframes))} : Ascending(list)}

\* what the call just made returns or throws when made on `list` instead
OutcomesOn(list) ==
    IF call.form = "animate"
    THEN {animate(list, call.time, call.interpolator, solved).outcome :
              solved \in SolverValues}
    ELSE {AG_animateBetweenKeys(AG_keys(list).value, call.time, solved).outcome :
              solved \in SolverValues}

\* keyframes that share a keyTime are the same descriptor
TiesIdentical ==
    \A i, j \in 1..Len(inputKeyframes) :
        KeyTimeAt(i) = KeyTimeAt(j) => inputKeyframes[i] = inputKeyframes[j]

\* C8 as stated: evaluating a valid list given in any order gives the result
\* of evaluating the list pre-sorted ascending by keyTime.
C8_AsStated ==
    (Evaluated /\ ValidInput) =>
        \A list \in PreSorted : call.outcome \in OutcomesOn(list)

\* C8 (amended): for a valid list in which keyframes sharing a keyTime are
\* identical (so whenever all keyTimes differ), evaluating the list given in any
\* order gives the result of evaluating it pre-sorted ascending by keyTime.
C8_OrderIndependent ==
    (Evaluated /\ ValidInput /\ TiesIdentical) =>
        \A list \in PreSorted : call.outcome \in OutcomesOn(list)

\* C8 witness: three keyframes with different keyTimes, given out of order,
\* were evaluated between two of them and the value was interpolated
C8_Witness ==
    /\ call.form = "animate"
    /\ Len(inputKeyframes) = 3
    /\ \A i, j \in 1..3 : i # j => KeyTimeAt(i) # KeyTimeAt(j)
    /\ ~Ascending(inputKeyframes)
    /\ call.bezierCalls # <<>>
    /\ call.outcome.kind = "return"

-----------------------------------------------------------------------------
(* Vocabulary of the properties: the segment a time falls into *)

\* the time lies strictly between two keyframes and on none
Interior(t) ==
    /\ \E i \in 1..Len(inputKeyframes) : RLt(KeyTimeAt(i), t)
    /\ \E i \in 1..Len(inputKeyframes) : RLt(t, KeyTimeAt(i))
    /\ \A i \in 1..Len(inputKeyframes) : KeyTimeAt(i) # t

\* the keyframe before t that comes last in the sorted sequence
CurIndex(t) ==
    CHOOSE i \in 1..Len(inputKeyframes) :
        /\ RLt(KeyTimeAt(i), t)
        /\ \A j \in 1..Len(inputKeyframes) : RLt(KeyTimeAt(j), t) =>
               \/ RLt(KeyTimeAt(j), KeyTimeAt(i))
               \/ (KeyTimeAt(j) = KeyTimeAt(i) /\ j <= i)

CurKey(t) == inputKeyframes[CurIndex(t)]

\* the keyframe after t that comes first in the sorted sequence
NextKey(t) ==
    inputKeyframes[CHOOSE i \in 1..Len(inputKeyframes) :
        /\ RLt(t, KeyTimeAt(i))
        /\ \A j \in 1..Len(inputKeyframes) : RLt(t, KeyTimeAt(j)) =>
               \/ RLt(KeyTimeAt(i), KeyTimeAt(j))
               \/ (KeyTimeAt(j) = KeyTimeAt(i) /\ i <= j)]

\* a keyframe's easing fields, with the documented defaults 33, 33, 0, 0
EaseInOf(k) == IF "easeIn" \in DOMAIN k THEN k.easeIn.num ELSE RInt(33)

EaseOutOf(k) == IF "easeOut" \in DOMAIN k THEN k.easeOut.num ELSE RInt(33)

VelocityInOf(k) == IF "velocityIn" \in DOMAIN k THEN k.velocityIn.num ELSE RInt(0)

VelocityOutOf(k) == IF "velocityOut" \in DOMAIN k THEN k.velocityOut.num ELSE RInt(0)

\* the ease is a percentage in 0..100
InPercentRange(e) == RLe(RInt(0), e) /\ RLe(e, RInt(100))

\* (t - cur.keyTime) / (next.keyTime - cur.keyTime)
LinearProgressAt(t) ==
    RDiv(RSub(t, CurKey(t).keyTime.num),
         RSub(NextKey(t).keyTime.num, CurKey(t).keyTime.num))

Clamp01(p) == IF RLt(p, RInt(0)) THEN RInt(0) ELSE IF RLt(RInt(1), p) THEN RInt(1) ELSE p

\* the error bezier() raises for a handle outside [0, 1]
RangeError == Throw("Error", [tmpl |-> "bezier x values must be in [0, 1] range"])

-----------------------------------------------------------------------------
(* C3 *)

\* C3: in eKeys.animate with no custom interpolator, at a time strictly between
\* adjacent keyframes cur and next whose keyValues are different numbers, with
\* identity easing (cur.easeOut = cur.velocityOut, next.easeIn = next.velocityIn,
\* both eases in 0..100), the result is
\*   cur.keyValue + (next.keyValue - cur.keyValue) * (time - cur.keyTime)
\*                  / (next.keyTime - cur.keyTime);
\* keyframes (0, 0) and (10, 100) give 50 at time 5 and 25 at time 2.5.
C3_ScalarInterpolation ==
    (call.form = "animate" /\ ValidInput /\ call.interpolator = Undefined) =>
        /\ Interior(call.time.num) =>
            LET t == call.time.num
                cur == CurKey(t)
                next == NextKey(t)
            IN  (/\ cur.keyValue.type = "number"
                 /\ next.keyValue.type = "number"
                 /\ cur.keyValue.num # next.keyValue.num
                 /\ EaseOutOf(cur) = VelocityOutOf(cur)
                 /\ EaseInOf(next) = VelocityInOf(next)
                 /\ InPercentRange(EaseOutOf(cur))
                 /\ InPercentRange(EaseInOf(next))) =>
                    call.outcome =
                        Return(Num(RAdd(cur.keyValue.num,
                            RDiv(RMul(RSub(next.keyValue.num, cur.keyValue.num),
                                      RSub(t, cur.keyTime.num)),
                                 RSub(next.keyTime.num, cur.keyTime.num)))))
        /\ inputKeyframes =
               <<[keyTime |-> Num(RInt(0)), keyValue |-> Num(RInt(0))] @@ EaseLinear,
                 [keyTime |-> Num(RInt(10)), keyValue |-> Num(RInt(100))] @@ EaseLinear>> =>
            /\ call.time = Num(RInt(5)) => call.outcome = Return(Num(RInt(50)))
            /\ call.time = Num(Rat(5, 2)) => call.outcome = Return(Num(RInt(25)))

\* C3 witness: keyframes (0, 0) and (10, 100) with identity easing, given in
\* reverse, evaluated at 2.5 with no interpolator, returned 25
C3_Witness ==
    /\ call.form = "animate"
    /\ call.interpolator = Undefined
    /\ inputKeyframes =
           <<[keyTime |-> Num(RInt(10)), keyValue |-> Num(RInt(100))] @@ EaseLinear,
             [keyTime |-> Num(RInt(0)), keyValue |-> Num(RInt(0))] @@ EaseLinear>>
    /\ call.time = Num(Rat(5, 2))
    /\ call.bezierCalls # <<>>
    /\ call.outcome = Return(Num(RInt(25)))

-----------------------------------------------------------------------------
(* C9 *)

\* velocities tried for the handles' y positions
HandleYs == {RInt(-3), RInt(0), Rat(1, 2), RInt(5)}

\* C9: bezier() with x1 or x2 outside [0, 1] raises for any y1, y2, as
\* bezier(1.5, 0, 0.5, 1) does; so whenever eKeys.animate builds the easing for
\* a segment whose cur.easeOut or next.easeIn lies outside 0..100 the evaluation
\* raises and returns no value, and it raises that error for no other segment,
\* whatever velocityIn and velocityOut are.
C9_InvalidHandle ==
    /\ bezier(Rat(3, 2), RInt(0), Rat(1, 2), RInt(1)) = RangeError
    /\ (call.form = "animate" /\ ValidInput /\ call.bezierCalls # <<>>) =>
        LET t == call.time.num
            cur == call.segment.curKey
            next == call.segment.nextKey
            args == call.bezierCalls[1]
            outside == ~InPercentRange(cur.easeOut.num) \/ ~InPercentRange(next.easeIn.num)
        IN  /\ Interior(t) =>
                   /\ cur.easeOut.num = EaseOutOf(CurKey(t))
                   /\ next.easeIn.num = EaseInOf(NextKey(t))
            /\ outside => call.outcome = RangeError
            /\ ~outside => call.outcome # RangeError
            /\ \A y1, y2 \in HandleYs :
                   bezier(args[1], y1, args[3], y2) = RangeError <=> outside

\* C9 witness: the easing was built for a segment whose easeOut is in 0..100
\* and whose next.easeIn is not, and the evaluation raised the range error
C9_Witness ==
    /\ call.form = "animate"
    /\ call.bezierCalls # <<>>
    /\ Interior(call.time.num)
    /\ InPercentRange(EaseOutOf(CurKey(call.time.num)))
    /\ ~InPercentRange(EaseInOf(NextKey(call.time.num)))
    /\ call.outcome = RangeError

-----------------------------------------------------------------------------
(* C10 *)

\* C10: when options.interpolator is supplied to eKeys.animate and the time is
\* interior and on no keyframe, between keyframes with differing values, the
\* interpolator is called exactly once with (linearProgress, cur.easeOut,
\* next.easeIn), linearProgress being (time - cur.keyTime) / (next.keyTime -
\* cur.keyTime) clamped to [0, 1]; its return value is the eased progress the
\* result is interpolated with; bezier() is never built, so no range error is
\* raised; when it is omitted, bezier() is built and no interpolator is called.
C10_CustomInterpolator ==
    (call.form = "animate" /\ ValidInput /\ Interior(call.time.num)) =>
        LET t == call.time.num
            cur == CurKey(t)
            next == NextKey(t)
            linearProgress == Clamp01(LinearProgressAt(t))
            returned == callInterpolator(call.interpolator, linearProgress,
                                         Num(EaseOutOf(cur)), Num(EaseInOf(next)))
        IN  ~StrictEq(cur.keyValue, next.keyValue) =>
                IF call.interpolator # Undefined
                THEN /\ call.interpolatorCalls =
                            <<<<Num(linearProgress), Num(EaseOutOf(cur)),
                                Num(EaseInOf(next))>>>>
                     /\ call.bezierCalls = <<>>
                     /\ call.outcome # RangeError
                     /\ call.easedProgress = returned
                     /\ (cur.keyValue.type = "number" /\ next.keyValue.type = "number") =>
                            call.outcome =
                                Return(Num(RAdd(cur.keyValue.num,
                                    RMul(RSub(next.keyValue.num, cur.keyValue.num),
                                         returned.num))))
                ELSE /\ call.interpolatorCalls = <<>>
                     /\ Len(call.bezierCalls) = 1

\* C10 witness: easeInQuad was supplied for a segment whose handles are outside
\* 0..100; at a quarter of the segment (0, 0) -> (10, 100) the result is 6.25
C10_Witness ==
    /\ call.form = "animate"
    /\ call.interpolator = Fn("easeInQuad")
    /\ call.time = Num(Rat(5, 2))
    /\ Interior(call.time.num)
    /\ ~InPercentRange(EaseOutOf(CurKey(call.time.num)))
    /\ ~InPercentRange(EaseInOf(NextKey(call.time.num)))
    /\ Len(call.interpolatorCalls) = 1
    /\ call.outcome = Return(Num(Rat(25, 4)))

-----------------------------------------------------------------------------
(* C4 *)

\* C4: in eKeys.animate, at a time strictly between adjacent keyframes whose
\* keyValues are arrays of the same length n, the result is an array of length
\* n whose i-th element is start[i] + (end[i] - start[i]) * easedProgress, the
\* same eased progress for every element; with identity easing, keyframes
\* (0, [0,0]) and (10, [10,20]) give [5,10] at time 5.
C4_VectorInterpolation ==
    (call.form = "animate" /\ ValidInput) =>
        /\ Interior(call.time.num) =>
            LET t == call.time.num
                start == CurKey(t).keyValue
                end == NextKey(t).keyValue
                eased == IF call.easedProgress = Undefined
                         THEN Clamp01(LinearProgressAt(t))
                         ELSE call.easedProgress.num
            IN  (/\ start.type = "array"
                 /\ end.type = "array"
                 /\ Len(start.elems) = Len(end.elems)) =>
                    /\ call.outcome.kind = "return"
                    /\ call.outcome.value.type = "array"
                    /\ Len(call.outcome.value.elems) = Len(start.elems)
                    /\ \A i \in 1..Len(start.elems) :
                           call.outcome.value.elems[i] =
                               Num(RAdd(start.elems[i].num,
                                        RMul(RSub(end.elems[i].num, start.elems[i].num),
                                             eased)))
                    /\ (call.easedProgress = Undefined) <=> (start.ref = end.ref)
        /\ (/\ inputKeyframes =
                   <<[keyTime |-> Num(RInt(0)), keyValue |-> ArrayA] @@ EaseLinear,
                     [keyTime |-> Num(RInt(10)), keyValue |-> ArrayB] @@ EaseLinear>>
            /\ call.interpolator = Undefined
            /\ call.time = Num(RInt(5))) =>
               call.outcome.value.elems = <<Num(RInt(5)), Num(RInt(10))>>

\* C4 witness: keyframes (0, [0,0]) and (10, [10,20]) with the default easing,
\* evaluated at 2.5 with easeInQuad supplied, returned [0.625, 1.25]
C4_Witness ==
    /\ call.form = "animate"
    /\ inputKeyframes =
           <<[keyTime |-> Num(RInt(0)), keyValue |-> ArrayA],
             [keyTime |-> Num(RInt(10)), keyValue |-> ArrayB]>>
    /\ call.interpolator = Fn("easeInQuad")
    /\ call.time = Num(Rat(5, 2))
    /\ call.outcome.kind = "return"
    /\ call.outcome.value.elems = <<Num(Rat(5, 8)), Num(Rat(5, 4))>>

-----------------------------------------------------------------------------
(* C5 *)

\* C5 as stated: evaluating, in either form, at a time strictly between two
\* adjacent keyframes whose keyValues are arrays of different lengths raises an
\* error naming both lengths and the segment index, and returns no value.
C5_AsStated ==
    (Evaluated /\ ValidInput /\ Interior(call.time.num)) =>
        LET t == call.time.num
            start == CurKey(t).keyValue
            end == NextKey(t).keyValue
        IN  (/\ start.type = "array"
             /\ end.type = "array"
             /\ Len(start.elems) # Len(end.elems)) =>
                /\ call.outcome.kind = "throw"
                /\ call.outcome.message.tmpl = "values must be of the same dimension"
                /\ call.outcome.message.received = <<Len(start.elems), Len(end.elems)>>
                /\ call.outcome.message.keyframe = Rank(CurIndex(t)) - 1
                /\ call.outcome.message.next = Rank(CurIndex(t))

-----------------------------------------------------------------------------
(* C6 *)

\* C6 as stated: validating a descriptor that has keyValue but no keyTime
\* raises a missing-argument error that names the field keyTime and the index
\* of the keyframe in the input list.
C6_AsStated ==
    (call.form \in {"animate", "AnimGroup"}) =>
        \A i \in 1..Len(inputKeyframes) :
            (/\ \A j \in 1..(i - 1) : ValidDescriptor(inputKeyframes[j])
             /\ DOMAIN inputKeyframes[i] \subseteq KeyframeProps
             /\ "keyValue" \in DOMAIN inputKeyframes[i]
             /\ "keyTime" \notin DOMAIN inputKeyframes[i]) =>
                /\ call.outcome.kind = "throw"
                /\ call.outcome.message.tmpl = "is required in"
                /\ call.outcome.message.variableName = "keyTime"
                /\ call.outcome.message.functionName = <<"keyframe", i - 1>>

-----------------------------------------------------------------------------
(* C7 *)

\* C7 as stated: a list holding a descriptor with a key other than keyTime,
\* keyValue, easeIn, easeOut, velocityIn, velocityOut is rejected with an error
\* at validation, and no call returns a value for it at any query time.
C7_AsStated ==
    (\E i \in 1..Len(inputKeyframes) :
         ~(DOMAIN inputKeyframes[i] \subseteq KeyframeProps)) =>
        (call.form # "none" => call.outcome.kind = "throw")

-----------------------------------------------------------------------------
(* C11 *)

\* a keyValue of a valid shape: a number, or an array whose elements are numbers
NumberOrNumbers(v) ==
    \/ v.type = "number"
    \/ v.type = "array" /\ \A i \in 1..Len(v.elems) : v.elems[i].type = "number"

\* every descriptor has keyTime and keyValue and no field validation rejects,
\* the shape of keyValue left aside
ValidButShape ==
    \A i \in 1..Len(inputKeyframes) :
        LET k == inputKeyframes[i]
        IN  /\ DOMAIN k \subseteq KeyframeProps
            /\ {"keyTime", "keyValue"} \subseteq DOMAIN k
            /\ k.keyTime.type = "number"
            /\ \A f \in DOMAIN k \ {"keyTime", "keyValue"} : k[f].type = "number"

\* C11 as stated: a keyframe is accepted only if its keyValue is a number or an
\* array whose elements are all numbers; a list holding a keyValue of any other
\* shape (a string, an object, null, an array with a non-number element) is
\* rejected with a TypeError by validation, in either form, and no call on it
\* returns a value.
C11_AsStated ==
    (/\ call.form # "none"
     /\ ValidButShape
     /\ \E i \in 1..Len(inputKeyframes) :
            ~NumberOrNumbers(inputKeyframes[i].keyValue)) =>
        /\ call.form \in {"animate", "AnimGroup"}
        /\ call.outcome.kind = "throw"
        /\ call.outcome.error = "TypeError"

-----------------------------------------------------------------------------
(* C12 *)

\* the descriptor lacks keyTime or keyValue, or holds one of the six fields
\* with a value of the wrong type
FailsValidation(k) ==
    \/ "keyTime" \notin DOMAIN k
    \/ "keyValue" \notin DOMAIN k
    \/ k.keyValue.type \notin {"number", "array"}
    \/ \E f \in (DOMAIN k \cap KeyframeProps) \ {"keyValue"} : k[f].type # "number"

\* position in the given list of the first keyframe the form called rejects:
\* eKeys.animate also rejects fields it does not recognize
FirstRejected ==
    LET rejected(i) ==
            \/ FailsValidation(inputKeyframes[i])
            \/ call.form = "animate"
               /\ ~(DOMAIN inputKeyframes[i] \subseteq KeyframeProps)
    IN  CHOOSE i \in 1..Len(inputKeyframes) :
            rejected(i) /\ \A j \in 1..(i - 1) : ~rejected(j)

\* the outcome is an error of validation raised for the keyframe at the
\* 0-based position `index` of the given list
ValidationErrorAt(outcome, index) ==
    /\ outcome.kind = "throw"
    /\ outcome.message.tmpl \in
           {"is required in", "must be of type", "Unexpected property on keyframe"}
    /\ outcome.message.tmpl = "is required in" =>
           outcome.message.functionName = <<"keyframe", index>>
    /\ outcome.message.tmpl = "Unexpected property on keyframe" =>
           outcome.message.index = index
    /\ (outcome.message.tmpl = "must be of type" /\ call.form = "animate") =>
           outcome.message.variableName[2] = index

\* C12: if any keyframe of the list fails validation (a missing or wrong-typed
\* field), eKeys.animate raises and returns no value at every query time, also
\* at or outside the boundary keyframes, and AnimGroup raises so that no
\* context exists to evaluate on; the error is the validation error of the
\* first rejected keyframe of the list as given, raised before any sorting,
\* locating or easing.
C12_ValidationFirst ==
    (\E i \in 1..Len(inputKeyframes) : FailsValidation(inputKeyframes[i])) =>
        /\ group # "ready"
        /\ call.form \in {"none", "animate", "AnimGroup"}
        /\ call.form \in {"animate", "AnimGroup"} =>
               ValidationErrorAt(call.outcome, FirstRejected - 1)
        /\ call.form = "animate" => NoEasing
        /\ call.form = "AnimGroup" => group = "failed" /\ keys = <<>>

\* C12 witness: a valid keyframe at time 0 followed by one whose keyValue is a
\* string; eKeys.animate, asked at time -5 where the first keyframe alone would
\* decide the result, raised the type error of keyframe 1
C12_Witness ==
    /\ call.form = "animate"
    /\ inputKeyframes =
           <<[keyTime |-> Num(RInt(0)), keyValue |-> Num(RInt(0))],
             [keyTime |-> Num(RInt(5)), keyValue |-> Str("5")]>>
    /\ call.time = Num(RInt(-5))
    /\ call.outcome =
           typeErrorMessage(<<"Keyframe", 1, "value">>, NumberOrArray, "string")

-----------------------------------------------------------------------------
(* C13 *)

\* what eKeys.animate(inputKeyframes, {inputTime: t}) returns or throws
OneShotOutcomes(t) ==
    {animate(inputKeyframes, t, Undefined, solved).outcome : solved \in SolverValues}

\* C13 as stated: for a valid keyframe list, every AnimGroup(list).anim(t) on
\* one context returns or raises what eKeys.animate(list, {inputTime: t}) with
\* no interpolator does, whatever was queried on the context before; at a time
\* between keyframes with differing values that is the interpolated value.
C13_AsStated ==
    (call.form = "anim" /\ ValidInput) => call.outcome \in OneShotOutcomes(call.time)

-----------------------------------------------------------------------------
(* C14 *)

\* the validated, sorted sequence eKeys.animate evaluates on
SortedKeys == sortByKeyTime(validateAll(inputKeyframes).value)

\* C14 as stated: whenever eKeys.animate computes the linear progress, for any
\* validated sorted sequence (keyframes sharing a keyTime included) and any
\* numeric time, the located pair is a keyframe of the sorted sequence and its
\* immediate successor with cur.keyTime < time < next.keyTime, so that
\* next.keyTime - cur.keyTime > 0 and linearProgress is strictly between 0 and 1.
C14_AsStated ==
    (call.form = "animate" /\ call.segment # Undefined) =>
        LET t == call.time.num
            at == call.segment
        IN  /\ at.curKeyNum + 2 \in 2..Len(SortedKeys)
            /\ at.curKey = SortedKeys[at.curKeyNum + 1]
            /\ at.nextKey = SortedKeys[at.curKeyNum + 2]
            /\ RLt(at.curKey.keyTime.num, t)
            /\ RLt(t, at.nextKey.keyTime.num)
            /\ at.animationLength =
                   RSub(at.nextKey.keyTime.num, at.curKey.keyTime.num)
            /\ RLt(RInt(0), at.animationLength)
            /\ RLt(RInt(0), at.linearProgress)
            /\ RLt(at.linearProgress, RInt(1))

\* C14 for times other than NaN: the located pair brackets the time strictly,
\* the segment has positive length and linearProgress is strictly between 0
\* and 1, keyframes sharing a keyTime included.
C14_OrdinaryTime ==
    (call.form = "animate" /\ ~IsNaN(call.time.num)) => C14_AsStated

====
